---- MODULE Spec2Model ----
(***************************************************************************)
(* A model of comfyui_batch_processor_v2.py: the prompt-file parser        *)
(* (parse_prompt_file), the template registry (load_workflow), the job     *)
(* materializer (update_workflow_prompt), the queue client (queue_prompt,  *)
(* get_history, wait_for_completion) and the batch loop (process_prompts). *)
(*                                                                         *)
(* Text is modelled as sequences of one-character strings.  The non-ASCII  *)
(* characters of the prompt format are written with ASCII stand-ins:       *)
(*   YEN "Y" for the yen sign, DELTA "D" for the delta, BULLET "*" for the *)
(*   bullet, TAB "<TAB>" for a tab.                                        *)
(***************************************************************************)
EXTENDS Integers, Sequences, FiniteSets, TLC

VARIABLES
    file,               \* the lines of the prompt file (each a sequence of characters)
    fileExists,         \* whether open(filepath) finds the file
    workflows,          \* self.workflows: job type -> kind of the backing document
    disk,               \* the files of the workflows folder: path -> what a load reads
    pc,                 \* position of process_prompts
    parseOutcome,       \* how parse_prompt_file ended: "none", "returned", "raised"
    prompts,            \* the list parse_prompt_file returned
    total_generations,  \* line 151
    completed,          \* line 154
    failed,             \* line 154
    pos,                \* <<prompt_idx, ratio index, i>> of the unit in progress (1-based)
    workflow,           \* the job document loaded and updated for the unit in progress
    prompt_id,          \* the id the remote queue gave the unit in progress
    elapsed,            \* time.time() - start_time while wait_for_completion runs
    remote,             \* the remote queue: the ids of the jobs it accepted
    log,                \* one record per unit begun, in the order begun
    report              \* the final tally logged at line 188, or <<>>

vars == <<file, fileExists, workflows, disk, pc, parseOutcome, prompts, total_generations,
          completed, failed, pos, workflow, prompt_id, elapsed, remote, log, report>>

(***************************************************************************)
(* Characters                                                              *)
(***************************************************************************)
LB == "["
RB == "]"
SP == " "
TAB == "<TAB>"
YEN == "Y"
DELTA == "D"
LBRACE == "{"
RBRACE == "}"
BULLET == "*"

Digits == {"0", "1", "2", "3"}

DigitVal(c) == CASE c = "0" -> 0 [] c = "1" -> 1 [] c = "2" -> 2 [] c = "3" -> 3

\* str.strip() with no argument strips whitespace
Whitespace == {SP, TAB}

(***************************************************************************)
(* The string operations parse_prompt_file uses                            *)
(***************************************************************************)
RECURSIVE str_lstrip(_)
str_lstrip(s) ==
    IF s # <<>> /\ Head(s) \in Whitespace THEN str_lstrip(Tail(s)) ELSE s

RECURSIVE str_rstrip(_, _)
str_rstrip(s, chars) ==
    IF s # <<>> /\ s[Len(s)] \in chars
    THEN str_rstrip(SubSeq(s, 1, Len(s) - 1), chars)
    ELSE s

str_strip(s) == str_rstrip(str_lstrip(s), Whitespace)

startswith(s, c) == s # <<>> /\ s[1] = c

endswith(s, c) == s # <<>> /\ s[Len(s)] = c

\* s[1:-1]
slice_1_m1(s) == SubSeq(s, 2, Len(s) - 1)

\* the least index at which sep occurs in s, 0 when it does not
str_find(s, sep) ==
    LET hits == {i \in 1..(Len(s) - Len(sep) + 1) : SubSeq(s, i, i + Len(sep) - 1) = sep}
    IN IF hits = {} THEN 0 ELSE CHOOSE i \in hits : \A j \in hits : i <= j

RECURSIVE str_split(_, _)
str_split(s, sep) ==
    LET i == str_find(s, sep)
    IN IF i = 0
       THEN <<s>>
       ELSE <<SubSeq(s, 1, i - 1)>> \o str_split(SubSeq(s, i + Len(sep), Len(s)), sep)

RECURSIVE str_int(_)
str_int(ds) ==
    IF ds = <<>> THEN 0
    ELSE 10 * str_int(SubSeq(ds, 1, Len(ds) - 1)) + DigitVal(ds[Len(ds)])

(***************************************************************************)
(* re.findall(r'<delta>\{([^}]+)\}<bullet>(\d+)<delta>', s), lines 73-74.  *)
(* A match at i is DELTA, LBRACE, a non-empty name that runs to the first  *)
(* RBRACE, RBRACE, BULLET, a maximal non-empty run of digits, DELTA.       *)
(* Neither group can backtrack to another match at the same i: the name    *)
(* cannot hold RBRACE and DELTA is no digit.                               *)
(***************************************************************************)
NoMatch == [ok |-> FALSE, name |-> <<>>, count |-> <<>>, end |-> 0]

\* the least index >= from whose character satisfies no "in cls", Len(s)+1 if none
first_outside(s, from, cls) ==
    LET out == {k \in from..Len(s) : s[k] \notin cls}
    IN IF out = {} THEN Len(s) + 1 ELSE CHOOSE k \in out : \A m \in out : k <= m

match_at(s, i) ==
    IF ~(i + 1 <= Len(s) /\ s[i] = DELTA /\ s[i + 1] = LBRACE) THEN NoMatch
    ELSE LET AnyChar == {s[x] : x \in 1..Len(s)}
             j == first_outside(s, i + 2, AnyChar \ {RBRACE})
         IN IF ~(j >= i + 3 /\ j + 1 <= Len(s) /\ s[j + 1] = BULLET) THEN NoMatch
            ELSE LET k == first_outside(s, j + 2, Digits)
                 IN IF ~(k >= j + 3 /\ k <= Len(s) /\ s[k] = DELTA) THEN NoMatch
                    ELSE [ok |-> TRUE,
                          name |-> SubSeq(s, i + 2, j - 1),
                          count |-> SubSeq(s, j + 2, k - 1),
                          end |-> k]

RECURSIVE findall_from(_, _)
findall_from(s, p) ==
    IF p > Len(s) THEN <<>>
    ELSE LET m == match_at(s, p)
         IN IF m.ok
            THEN <<<<m.name, m.count>>>> \o findall_from(s, m.end + 1)
            ELSE findall_from(s, p + 1)

re_findall(s) == findall_from(s, 1)

(***************************************************************************)
(* parse_prompt_file, lines 53-92                                          *)
(***************************************************************************)
\* line 60: the stripped line is parsed only when it starts with [ and ends with ]
line_qualifies(l) == startswith(l, LB) /\ endswith(l, RB)

\* line 66: exactly two parts
parts_ok(parts) == Len(parts) = 2

\* a slip: the text is left with the whitespace around it
prompt_text_of_unstripped(seg) == str_rstrip(seg, {YEN})

\* line 71: prompt_text.rstrip(YEN).strip()
prompt_text_of(seg) == str_strip(str_rstrip(seg, {YEN}))

\* line 80
make_ratios(matches) ==
    [k \in 1..Len(matches) |->
        [type |-> str_strip(matches[k][1]), count |-> str_int(matches[k][2])]]

\* the body of the loop at lines 58-89 for one line: the entries it appends
parse_line(raw, line_num) ==
    LET line == str_strip(raw)
    IN IF ~line_qualifies(line) THEN <<>>
       ELSE LET content == slice_1_m1(line)
                parts == str_split(content, <<SP, YEN>>)
            IN IF ~parts_ok(parts) THEN <<>>
               ELSE LET workflow_part == parts[1]
                        prompt_text == prompt_text_of(parts[2])
                        matches == re_findall(workflow_part)
                    IN IF matches = <<>> THEN <<>>
                       ELSE <<[text |-> prompt_text,
                               ratios |-> make_ratios(matches),
                               line_num |-> line_num]>>

\* enumerate(f, 1), line 58
FirstLineNum == 1

\* a slip: enumerate(f), which counts from 0
first_line_num_zero == FirstLineNum - 1

\* the number parse_prompt_file gives the first line
first_line_num == FirstLineNum

RECURSIVE parse_lines(_, _)
parse_lines(lines, n) ==
    IF lines = <<>> THEN <<>>
    ELSE parse_line(Head(lines), n) \o parse_lines(Tail(lines), n + 1)

\* a slip: no except clause, FileNotFoundError reaches the caller
on_missing_file_raise == [raised |-> TRUE, prompts |-> <<>>]

\* lines 90-92: FileNotFoundError is caught and logged, and the empty list returned
on_missing_file == [raised |-> FALSE, prompts |-> <<>>]

parse_prompt_file(exists, lines) ==
    IF ~exists THEN on_missing_file
    ELSE [raised |-> FALSE, prompts |-> parse_lines(lines, first_line_num)]

(***************************************************************************)
(* The template registry and the documents behind it                       *)
(***************************************************************************)
TypeA == <<"a">>
TypeB == <<"b">>
TypeM == <<"m">>

\* A node of a workflow document.  inputs maps the names of the input fields
\* the node has to their values.
TextNode(t) ==
    [is_dict |-> TRUE, class_type |-> "CLIPTextEncode", has_inputs |-> TRUE,
     inputs |-> [text |-> t, clip |-> 4]]

SamplerNode(sd) ==
    [is_dict |-> TRUE, class_type |-> "KSampler", has_inputs |-> TRUE,
     inputs |-> [seed |-> sd, steps |-> 20]]

OtherNode ==
    [is_dict |-> TRUE, class_type |-> "SaveImage", has_inputs |-> TRUE,
     inputs |-> [images |-> 0]]

\* The files of the workflows folder: a.json holds a workflow with a text
\* node, a sampler node and a node of another class; b.json is not JSON.
WorkflowFiles ==
    [path \in {"workflows/a.json", "workflows/b.json"} |->
        IF path = "workflows/a.json"
        THEN [json_ok |-> TRUE,
              doc |-> [n \in {"6", "3", "9"} |->
                         CASE n = "6" -> TextNode(<<"t">>)
                           [] n = "3" -> SamplerNode(<<0, 0>>)
                           [] n = "9" -> OtherNode]]
        ELSE [json_ok |-> FALSE, doc |-> <<>>]]

\* self.workflows as _discover_workflows leaves it (lines 41-45): stem -> path
DiscoveredWorkflows ==
    [t \in {TypeA, TypeB} |->
        IF t = TypeA THEN "workflows/a.json" ELSE "workflows/b.json"]

\* a slip: an unregistered name falls back to a default workflow
load_workflow_fallback(registry, workflow_type) ==
    LET path == IF workflow_type \in DOMAIN registry
                THEN registry[workflow_type] ELSE "workflows/a.json"
        f == disk[path]
    IN IF ~f.json_ok
       THEN [raised |-> "JSONDecodeError", doc |-> <<>>]
       ELSE [raised |-> "", doc |-> f.doc]

\* load_workflow, lines 94-101: raises when the name is not registered (line 99)
\* or when json.load fails (line 101); the document is read from the file
load_workflow(registry, workflow_type) ==
    IF workflow_type \notin DOMAIN registry
    THEN [raised |-> "FileNotFoundError", doc |-> <<>>]
    ELSE LET f == disk[registry[workflow_type]]
         IN IF ~f.json_ok
            THEN [raised |-> "JSONDecodeError", doc |-> <<>>]
            ELSE [raised |-> "", doc |-> f.doc]

\* a slip: the document a load returned is kept and handed out again, so
\* the writes of update_workflow_prompt reach the next load
after_update_shared(d, path, written) == [d EXCEPT ![path].doc = written]

\* lines 100-101 and 105-110: json.load builds the document anew from the
\* file, opened for reading, and update_workflow_prompt writes into that
\* document only: what a later load reads is what it was
after_update(d, path, written) == d

\* A seed is a pair <<h, l>> that stands for the integer h * 10^8 + l, with
\* 0 <= l < 10^8.
seed_leq(a, b) == a[1] < b[1] \/ (a[1] = b[1] /\ a[2] <= b[2])

\* a slip: the seeds start at 0
RandintLowZero == <<0, 0>>

\* random.randint(1, 10**15), line 110: the two arguments; 10**15 = 10^7 * 10^8
RandintLow == <<0, 1>>

RandintHigh == <<10000000, 0>>

\* the integers a draw is tried with: 0, 1, 10^15 - 1, 10^15 and 10^15 + 1
SeedPool == {<<0, 0>>, <<0, 1>>, <<9999999, 99999999>>, <<10000000, 0>>, <<10000000, 1>>}

\* random.randint(a, b) returns an integer N with a <= N <= b
randint(a, b) == {v \in SeedPool : seed_leq(a, v) /\ seed_leq(v, b)}

SeedNodes(doc) ==
    {n \in DOMAIN doc : doc[n].is_dict /\ doc[n].class_type = "KSampler"
                        /\ doc[n].has_inputs}

\* a slip: the text is written into every node that has a text input, whatever
\* its class
update_workflow_prompt_any_class(doc, prompt_text, seeds) ==
    [n \in DOMAIN doc |->
        LET node == doc[n]
        IN IF ~node.is_dict THEN node
           ELSE IF node.has_inputs /\ "text" \in DOMAIN node.inputs
                THEN [node EXCEPT !.inputs = [@ EXCEPT !.text = prompt_text]]
                ELSE IF node.class_type = "KSampler" /\ node.has_inputs
                     THEN [node EXCEPT !.inputs =
                             [f \in DOMAIN @ \cup {"seed"} |->
                                 IF f = "seed" THEN seeds[n] ELSE @[f]]]
                     ELSE node]

\* update_workflow_prompt, lines 103-111; seeds[n] is the number drawn for node n
update_workflow_prompt(doc, prompt_text, seeds) ==
    [n \in DOMAIN doc |->
        LET node == doc[n]
        IN IF ~node.is_dict THEN node
           ELSE IF node.class_type = "CLIPTextEncode" /\ node.has_inputs
                   /\ "text" \in DOMAIN node.inputs
                THEN [node EXCEPT !.inputs = [@ EXCEPT !.text = prompt_text]]
                ELSE IF node.class_type = "KSampler" /\ node.has_inputs
                     THEN [node EXCEPT !.inputs =
                             [f \in DOMAIN @ \cup {"seed"} |->
                                 IF f = "seed" THEN seeds[n] ELSE @[f]]]
                     ELSE node]

(***************************************************************************)
(* The queue client.  The remote queue keeps to its interface: the body of *)
(* a successful POST /prompt or GET /history/{id} answer is a JSON object. *)
(***************************************************************************)
\* What a POST /prompt can come to
PostReplies ==
    {"transport_error",     \* requests.post raises
     "http_error",          \* raise_for_status raises
     "not_json",            \* resp.json() raises
     "empty_object",        \* {}
     "no_prompt_id",        \* an object without the key prompt_id
     "ok"}                  \* an object with the key prompt_id

\* What a GET /history/{id} can come to
GetReplies ==
    {"transport_error", "http_error", "not_json",
     "pending",             \* an object without the key <id>
     "done"}                \* an object with the key <id>

None == [raised |-> FALSE, none |-> TRUE, keys |-> {}, prompt_id |-> 0]

Object(ks, id) == [raised |-> FALSE, none |-> FALSE, keys |-> ks, prompt_id |-> id]

\* queue_prompt, lines 113-123: the parsed answer, None after any exception
queue_prompt(reply, id) ==
    CASE reply \in {"transport_error", "http_error", "not_json"} -> None
      [] reply = "empty_object" -> Object({}, 0)
      [] reply = "no_prompt_id" -> Object({"error"}, 0)
      [] reply = "ok" -> Object({"prompt_id", "number"}, id)

\* a slip: any parsed answer counts as accepted
submit_accepted_not_none(result) == ~result.none

\* line 168: result and 'prompt_id' in result
submit_accepted(result) ==
    ~result.none /\ result.keys # {} /\ "prompt_id" \in result.keys

\* a slip: no try around the request, so its exceptions leave get_history
get_history_raising(reply, id) ==
    CASE reply \in {"transport_error", "http_error", "not_json"} ->
            [raised |-> TRUE, none |-> TRUE, keys |-> {}, prompt_id |-> 0]
      [] reply = "pending" -> Object({}, 0)
      [] reply = "done" -> Object({id}, 0)

\* get_history, lines 125-132: the parsed answer, None after any exception
get_history(reply, id) ==
    CASE reply \in {"transport_error", "http_error", "not_json"} -> None
      [] reply = "pending" -> Object({}, 0)
      [] reply = "done" -> Object({id}, 0)

\* line 139: history and prompt_id in history
history_done(history, id) ==
    ~history.none /\ history.keys # {} /\ id \in history.keys

\* wait_for_completion's timeout (600 by default, line 134), scaled down
timeout == 6

\* time.sleep(2) between polls, line 141.  The clock is read only at lines
\* 136-137, so the time that passes outside wait_for_completion (the sleep
\* of line 181 included) is not kept.
PollSleep == 2

\* the longest an HTTP request takes
MaxLatency == 1

\* a slip: one more poll when the timeout has just elapsed
wait_continue_inclusive(since_start) == since_start <= timeout

\* a slip: the clock is read before the sleep, so the loop condition misses
\* the time slept last
wait_continue_before_sleep(since_start) == since_start - PollSleep < timeout

\* line 137: the loop condition, time.time() - start_time < timeout
wait_continue(since_start) == since_start < timeout

(***************************************************************************)
(* The loops of process_prompts, lines 155-162.  A position <<p, r, i>> is *)
(* entry p, its ratio r, repetition i, each counted from 1.                *)
(***************************************************************************)
End == <<0, 0, 0>>

\* a slip: every ratio runs at least once, also one with count 0
Positions_at_least_once(ps) ==
    UNION {UNION {{<<p, r, i>> : i \in 1..(IF ps[p].ratios[r].count = 0 THEN 1
                                            ELSE ps[p].ratios[r].count)} :
                     r \in 1..Len(ps[p].ratios)} :
              p \in 1..Len(ps)}

\* lines 155-162: range(count) for every ratio of every entry
Positions(ps) ==
    UNION {UNION {{<<p, r, i>> : i \in 1..ps[p].ratios[r].count} :
                     r \in 1..Len(ps[p].ratios)} :
              p \in 1..Len(ps)}

Before(a, b) ==
    \/ a[1] < b[1]
    \/ a[1] = b[1] /\ a[2] < b[2]
    \/ a[1] = b[1] /\ a[2] = b[2] /\ a[3] < b[3]

\* the position the loops reach after position at
loop_next(ps, at) ==
    LET later == {q \in Positions(ps) : Before(at, q)}
    IN IF later = {} THEN End
       ELSE CHOOSE q \in later : \A x \in later : x = q \/ Before(q, x)

\* a slip: the try around the loops, so that an exception ends the batch
after_unit_abort(ps, at, raised) == IF raised THEN End ELSE loop_next(ps, at)

\* lines 162-163 and 183-185: the try is inside the innermost loop, so the
\* loops go on whether or not the unit raised
after_unit(ps, at, raised) == loop_next(ps, at)

\* a slip: the unit is counted before the exception is raised and again in
\* the except clause
on_critical_error_twice(f) == f + 2

\* a slip: the except clause logs the error and counts nothing
on_critical_error_uncounted(f) == f

\* line 184: the except clause counts the unit as failed
on_critical_error(f) == f + 1

RECURSIVE SumCounts(_)
SumCounts(ratios) ==
    IF ratios = <<>> THEN 0 ELSE Head(ratios).count + SumCounts(Tail(ratios))

\* line 151
RECURSIVE sum_generations(_)
sum_generations(ps) ==
    IF ps = <<>> THEN 0 ELSE SumCounts(Head(ps).ratios) + sum_generations(Tail(ps))

(***************************************************************************)
(* The prompt files of a batch run                                         *)
(***************************************************************************)
Group(name, digits) == <<DELTA, LBRACE>> \o name \o <<RBRACE, BULLET>> \o digits \o <<DELTA>>

Line(workflow_part, text) == <<LB>> \o workflow_part \o <<SP, YEN>> \o text \o <<YEN, RB>>

Junk == <<"j", "u", "n", "k">>

RunFiles ==
    {<<>>,
     <<Junk>>,
     <<Line(Group(TypeA, <<"2">>), <<"c">>)>>,
     <<Line(Group(TypeM, <<"1">>) \o Group(TypeA, <<"1">>), <<"d">>),
       Junk,
       Line(Group(TypeB, <<"1">>) \o Group(TypeA, <<"0">>), <<"c">>)>>,
     <<Line(Group(TypeM, <<"2">>), <<"x">>)>>,
     <<Line(Group(TypeA, <<"0">>), <<"c">>)>>,
     <<Line(Group(TypeA, <<"2">>), <<"c">>),
       Line(Group(TypeB, <<"1">>) \o Group(TypeA, <<"1">>), <<"d">>)>>}

(***************************************************************************)
(* The state of a unit, as the log records it                              *)
(***************************************************************************)
NewUnit(at) ==
    [pos |-> at,            \* the unit's place in the loops
     state |-> "Pending",   \* Pending, Submitted, Completed, Failed, TimedOut
     cause |-> "",          \* why a Failed unit failed
     posts |-> 0,           \* the POST /prompt requests issued for it
     post_reply |-> "",     \* what its POST /prompt came to
     gets |-> 0,            \* the GET /history requests issued for it
     failed_polls |-> 0,    \* the polls among them that failed
     last_poll |-> "",      \* how the last poll ended: failed, pending, done
     done_in_time |-> FALSE,    \* a poll issued before the timeout found the job done
     posted_texts |-> {}]   \* the text inputs of the CLIPTextEncode nodes of the document posted

\* the values of the text inputs of the CLIPTextEncode nodes of a document
TextsIn(doc) ==
    {doc[n].inputs.text : n \in {m \in DOMAIN doc :
        /\ doc[m].is_dict /\ doc[m].class_type = "CLIPTextEncode"
        /\ doc[m].has_inputs /\ "text" \in DOMAIN doc[m].inputs}}

SetLast(l, rec) == [l EXCEPT ![Len(l)] = rec]

Last(l) == l[Len(l)]

\* where process_prompts is after a unit ended and the loops moved to position nxt
PcAt(nxt) == IF nxt = End THEN "report" ELSE "unit"

InitRun ==
    /\ workflows = DiscoveredWorkflows
    /\ pc = "parse"
    /\ parseOutcome = "none"
    /\ prompts = <<>>
    /\ total_generations = 0
    /\ completed = 0
    /\ failed = 0
    /\ pos = End
    /\ workflow = <<>>
    /\ prompt_id = 0
    /\ elapsed = 0
    /\ remote = {}
    /\ log = <<>>
    /\ report = [logged |-> FALSE, total |-> 0, completed |-> 0, failed |-> 0]

Init ==
    /\ fileExists \in BOOLEAN
    /\ file \in RunFiles
    /\ (~fileExists => file = <<>>)
    /\ disk = WorkflowFiles
    /\ InitRun

\* line 146: prompts = self.parse_prompt_file(prompt_file)
ParsePromptFile ==
    /\ pc = "parse"
    /\ LET res == parse_prompt_file(fileExists, file)
       IN IF res.raised
          THEN /\ parseOutcome' = "raised"
               /\ pc' = "aborted"
               /\ UNCHANGED prompts
          ELSE /\ parseOutcome' = "returned"
               /\ prompts' = res.prompts
               /\ pc' = "check"
    /\ UNCHANGED <<file, fileExists, workflows, disk, total_generations, completed, failed,
                   pos, workflow, prompt_id, elapsed, remote, log, report>>

\* lines 147-155: return when nothing was parsed, else count and enter the loops
CheckPrompts ==
    /\ pc = "check"
    /\ IF prompts = <<>>
       THEN /\ pc' = "done"
            /\ UNCHANGED <<total_generations, pos>>
       ELSE /\ total_generations' = sum_generations(prompts)
            /\ pos' = loop_next(prompts, End)
            /\ pc' = PcAt(pos')
    /\ completed' = 0
    /\ failed' = 0
    /\ UNCHANGED <<file, fileExists, workflows, disk, parseOutcome, prompts, workflow,
                   prompt_id, elapsed, remote, log, report>>

\* lines 162-165 and 183-185: load the unit's workflow and write the prompt
\* into it; an exception counts the unit as failed and the loops go on
LoadWorkflow ==
    /\ pc = "unit"
    /\ LET entry == prompts[pos[1]]
           ratio_type == entry.ratios[pos[2]].type
           loaded == load_workflow(workflows, ratio_type)
       IN IF loaded.raised # ""
          THEN /\ failed' = on_critical_error(failed)
               /\ log' = Append(log, [NewUnit(pos) EXCEPT !.state = "Failed",
                                                          !.cause = loaded.raised])
               /\ pos' = after_unit(prompts, pos, TRUE)
               /\ pc' = PcAt(pos')
               /\ UNCHANGED <<workflow, disk>>
          ELSE /\ \E seeds \in [SeedNodes(loaded.doc) -> randint(RandintLow, RandintHigh)] :
                     workflow' = update_workflow_prompt(loaded.doc, entry.text, seeds)
               /\ disk' = after_update(disk, workflows[ratio_type], workflow')
               /\ log' = Append(log, NewUnit(pos))
               /\ pc' = "queue"
               /\ UNCHANGED <<failed, pos>>
    /\ UNCHANGED <<file, fileExists, workflows, parseOutcome, prompts, total_generations,
                   completed, prompt_id, elapsed, remote, report>>

\* a slip: an accepted job is not waited for; the loops go on to the next unit
QueuePromptNoWait ==
    /\ pc = "queue"
    /\ \E reply \in PostReplies :
          LET id == Cardinality(remote) + 1
              result == queue_prompt(reply, id)
              sent == [Last(log) EXCEPT !.posts = @ + 1, !.post_reply = reply,
                                        !.posted_texts = TextsIn(workflow)]
          IN /\ IF submit_accepted(result)
                THEN /\ prompt_id' = result.prompt_id
                     /\ remote' = remote \cup {id}
                     /\ log' = SetLast(log, [sent EXCEPT !.state = "Submitted"])
                     /\ UNCHANGED failed
                ELSE /\ failed' = failed + 1
                     /\ log' = SetLast(log, [sent EXCEPT !.state = "Failed",
                                                         !.cause = "SubmissionError"])
                     /\ UNCHANGED <<prompt_id, remote>>
             /\ pos' = after_unit(prompts, pos, FALSE)
             /\ pc' = PcAt(pos')
    /\ UNCHANGED <<file, fileExists, workflows, disk, parseOutcome, prompts,
                   total_generations, completed, workflow, elapsed, report>>

\* lines 167-170 and 178-181: POST /prompt; an accepted job is polled, any
\* other answer counts the unit as failed.  wait_for_completion takes its
\* start_time (line 136) as the unit becomes Submitted.
QueuePrompt ==
    /\ pc = "queue"
    /\ \E reply \in PostReplies :
          LET id == Cardinality(remote) + 1
              result == queue_prompt(reply, id)
              sent == [Last(log) EXCEPT !.posts = @ + 1, !.post_reply = reply,
                                        !.posted_texts = TextsIn(workflow)]
          IN IF submit_accepted(result)
             THEN /\ prompt_id' = result.prompt_id
                  /\ remote' = remote \cup {id}
                  /\ log' = SetLast(log, [sent EXCEPT !.state = "Submitted"])
                  /\ elapsed' = 0
                  /\ pc' = "wait"
                  /\ UNCHANGED <<failed, pos>>
             ELSE /\ failed' = failed + 1
                  /\ log' = SetLast(log, [sent EXCEPT !.state = "Failed",
                                                      !.cause = "SubmissionError"])
                  /\ pos' = after_unit(prompts, pos, FALSE)
                  /\ pc' = PcAt(pos')
                  /\ UNCHANGED <<prompt_id, remote, elapsed>>
    /\ UNCHANGED <<file, fileExists, workflows, disk, parseOutcome, prompts, total_generations,
                   completed, workflow, report>>

\* lines 137-141 and 172-174: one turn of the poll loop while the timeout has
\* not elapsed: a GET /history/{prompt_id} that takes d, then the job is
\* done or the loop sleeps.  An exception out of get_history would reach
\* line 183.
PollHistory ==
    /\ pc = "wait"
    /\ wait_continue(elapsed)
    /\ \E reply \in GetReplies, d \in 0..MaxLatency :
          LET history == get_history(reply, prompt_id)
              polled == [Last(log) EXCEPT
                           !.gets = @ + 1,
                           !.failed_polls = IF reply \notin {"pending", "done"}
                                            THEN @ + 1 ELSE @,
                           !.last_poll = IF reply \in {"pending", "done"}
                                         THEN reply ELSE "failed",
                           !.done_in_time = @ \/ (reply = "done" /\ elapsed < timeout)]
          IN IF history.raised
             THEN /\ failed' = on_critical_error(failed)
                  /\ log' = SetLast(log, [polled EXCEPT !.state = "Failed",
                                                        !.cause = "poll raised"])
                  /\ elapsed' = 0
                  /\ pos' = after_unit(prompts, pos, TRUE)
                  /\ pc' = PcAt(pos')
                  /\ UNCHANGED completed
             ELSE IF history_done(history, prompt_id)
             THEN /\ completed' = completed + 1
                  /\ log' = SetLast(log, [polled EXCEPT !.state = "Completed"])
                  /\ elapsed' = 0
                  /\ pos' = after_unit(prompts, pos, FALSE)
                  /\ pc' = PcAt(pos')
                  /\ UNCHANGED failed
             ELSE /\ log' = SetLast(log, polled)
                  /\ elapsed' = elapsed + d + PollSleep
                  /\ UNCHANGED <<completed, failed, pos, pc>>
    /\ UNCHANGED <<file, fileExists, workflows, disk, parseOutcome, prompts, total_generations,
                   workflow, prompt_id, remote, report>>

\* a slip: a timed-out unit is submitted again
WaitTimeoutRetry ==
    /\ pc = "wait"
    /\ ~wait_continue(elapsed)
    /\ failed' = failed + 1
    /\ log' = SetLast(log, [Last(log) EXCEPT !.state = "TimedOut"])
    /\ elapsed' = 0
    /\ pc' = "queue"
    /\ UNCHANGED <<file, fileExists, workflows, disk, parseOutcome, prompts, total_generations,
                   completed, pos, workflow, prompt_id, remote, report>>

\* lines 137, 142 and 175-177: the timeout has elapsed
WaitTimeout ==
    /\ pc = "wait"
    /\ ~wait_continue(elapsed)
    /\ failed' = failed + 1
    /\ log' = SetLast(log, [Last(log) EXCEPT !.state = "TimedOut"])
    /\ elapsed' = 0
    /\ pos' = after_unit(prompts, pos, FALSE)
    /\ pc' = PcAt(pos')
    /\ UNCHANGED <<file, fileExists, workflows, disk, parseOutcome, prompts, total_generations,
                   completed, workflow, prompt_id, remote, report>>

\* lines 187-188: the final report
Report ==
    /\ pc = "report"
    /\ report' = [logged |-> TRUE, total |-> total_generations,
                  completed |-> completed, failed |-> failed]
    /\ pc' = "done"
    /\ UNCHANGED <<file, fileExists, workflows, disk, parseOutcome, prompts, total_generations,
                   completed, failed, pos, workflow, prompt_id, elapsed, remote, log>>

Next ==
    \/ ParsePromptFile
    \/ CheckPrompts
    \/ LoadWorkflow
    \/ QueuePrompt
    \/ PollHistory
    \/ WaitTimeout
    \/ Report

Spec == Init /\ [][Next]_vars

(***************************************************************************)
(* What the claims speak of                                                *)
(***************************************************************************)
Terminal == {"Completed", "Failed", "TimedOut"}

Units == 1..Len(log)

\* the job type of the unit at position at
TypeAt(at) == prompts[at[1]].ratios[at[2]].type

Unregistered(t) == t \notin DOMAIN workflows

Unparsable(t) == t \in DOMAIN workflows /\ ~disk[workflows[t]].json_ok

\* the units of a batch: entries in file order, ratios in match order,
\* repetitions 1..count
RatioUnits(p, r, count) == [i \in 1..count |-> <<p, r, i>>]

RECURSIVE EntryUnits(_, _, _)
EntryUnits(ps, p, r) ==
    IF r > Len(ps[p].ratios) THEN <<>>
    ELSE RatioUnits(p, r, ps[p].ratios[r].count) \o EntryUnits(ps, p, r + 1)

RECURSIVE UnitsFrom(_, _)
UnitsFrom(ps, p) ==
    IF p > Len(ps) THEN <<>> ELSE EntryUnits(ps, p, 1) \o UnitsFrom(ps, p + 1)

UnitsInOrder(ps) == UnitsFrom(ps, 1)

CountIn(states) == Cardinality({k \in Units : log[k].state \in states})

\* the counters agree with the outcomes of the units
CountersMatchLog ==
    /\ completed = CountIn({"Completed"})
    /\ failed = CountIn({"Failed", "TimedOut"})

(* C1: when process_prompts finishes a batch with at least one parsed entry,
   completed + failed equals the total it computed, whatever each unit came
   to. *)
C1_TallyAddsUp ==
    (pc = "done" /\ prompts # <<>>) =>
        /\ completed + failed = total_generations
        /\ report = [logged |-> TRUE, total |-> total_generations,
                     completed |-> completed, failed |-> failed]

\* a finished batch with a completed unit, a timed-out unit, a rejected
\* submission and an unparsable template
C1_Witness ==
    /\ pc = "done"
    /\ \E a, b, c, d \in Units :
          /\ log[a].state = "Completed"
          /\ log[b].state = "TimedOut"
          /\ log[c].cause = "SubmissionError"
          /\ log[d].cause = "JSONDecodeError"

(* C2: every unit is attempted exactly once, in the order entries, ratios,
   repetitions, whatever the earlier units came to: the units begun are
   always a prefix of the batch's units in that order, and all of them when
   the batch is finished. *)
C2_EveryUnitInOrder ==
    LET expected == UnitsInOrder(prompts)
    IN /\ Len(log) <= Len(expected)
       /\ \A k \in Units : log[k].pos = expected[k]
       /\ (pc \in {"unit", "queue", "wait"} =>
              pos = expected[IF pc = "unit" THEN Len(log) + 1 ELSE Len(log)])
       /\ (pc \in {"report", "done"} /\ prompts # <<>> => Len(log) = Len(expected))

\* a finished batch of four units whose first timed out, whose second and
\* third failed and whose fourth completed
C2_Witness ==
    /\ pc = "done"
    /\ Len(log) = 4
    /\ log[1].state = "TimedOut"
    /\ log[2].state = "Failed"
    /\ log[3].state = "Failed"
    /\ log[4].state = "Completed"

(* C3: a unit whose job type has no registered template, or whose template
   cannot be parsed, is counted as failed once (the counters match the
   outcomes), with no POST /prompt and no GET /history, and the batch goes
   on: a ratio of n such units yields n failures. *)
C3_UnloadableUnitFails ==
    /\ CountersMatchLog
    /\ \A k \in Units :
          LET t == TypeAt(log[k].pos)
          IN (Unregistered(t) \/ Unparsable(t)) =>
                /\ log[k].state = "Failed"
                /\ log[k].cause = IF Unregistered(t) THEN "FileNotFoundError"
                                  ELSE "JSONDecodeError"
                /\ log[k].posts = 0
                /\ log[k].gets = 0
    /\ (pc = "done" /\ prompts # <<>> =>
          \A p \in 1..Len(prompts) : \A r \in 1..Len(prompts[p].ratios) :
             LET t == prompts[p].ratios[r].type
             IN (Unregistered(t) \/ Unparsable(t)) =>
                   Cardinality({k \in Units : /\ log[k].pos[1] = p
                                              /\ log[k].pos[2] = r
                                              /\ log[k].state = "Failed"})
                      = prompts[p].ratios[r].count)

\* a finished batch with a unit of an unregistered type and a unit of an
\* unparsable template, each followed by a unit that was submitted
C3_Witness ==
    /\ pc = "done"
    /\ \E a, b \in Units :
          /\ log[a].cause = "FileNotFoundError"
          /\ a < Len(log) /\ log[a + 1].posts = 1
          /\ log[b].cause = "JSONDecodeError"

(* C4: a unit whose POST /prompt fails in transport, is answered with an
   error status, or is answered without a prompt_id is counted as failed
   once and never polled. *)
C4_SubmitFailureNotPolled ==
    /\ CountersMatchLog
    /\ \A k \in Units :
          log[k].post_reply \in PostReplies \ {"ok"} =>
             /\ log[k].state = "Failed"
             /\ log[k].posts = 1
             /\ log[k].gets = 0

\* a batch in which a POST failed in transport, another was answered with
\* an error status and another without a prompt_id
C4_Witness ==
    \E a, b, c \in Units :
       /\ log[a].post_reply = "transport_error"
       /\ log[b].post_reply = "http_error"
       /\ log[c].post_reply = "no_prompt_id"

(* C5: a poll that fails is "not yet done": it ends no unit and raises
   nothing to process_prompts (a polled unit is never Failed, and a unit
   whose last poll failed is still being polled or has run into the
   timeout), and a unit for which a poll issued before the timeout found
   the job done is Completed, however many polls failed before. *)
C5_FailedPollIsNotYetDone ==
    \A k \in Units :
       /\ (log[k].state = "Failed" => log[k].gets = 0)
       /\ (log[k].last_poll = "failed" => log[k].state \in {"Submitted", "TimedOut"})
       /\ (log[k].state = "Submitted" /\ log[k].gets > 0 /\ elapsed < timeout
              => ENABLED PollHistory)
       /\ (log[k].done_in_time => log[k].state = "Completed")

\* a unit reported Completed after two failed polls
C5_Witness ==
    \E k \in Units :
       log[k].state = "Completed" /\ log[k].failed_polls >= 2 /\ log[k].gets >= 3

(* C6: a submitted unit is Completed only if a poll issued before the
   timeout elapsed returned a history holding its prompt_id, and TimedOut
   only if no such poll did; the counters follow. *)
C6_OutcomeFollowsPolls ==
    /\ CountersMatchLog
    /\ \A k \in Units :
          /\ (log[k].state = "Completed" => log[k].done_in_time /\ log[k].posts = 1)
          /\ (log[k].state = "TimedOut" => ~log[k].done_in_time /\ log[k].posts = 1)

\* a unit completed at its second poll or later, and a unit that timed out
\* with the job still pending at its last poll
C6_Witness ==
    \E a, b \in Units :
       /\ log[a].state = "Completed" /\ log[a].gets >= 2
       /\ log[b].state = "TimedOut" /\ log[b].last_poll = "pending"

(* C7: a unit goes Pending -> Submitted -> Completed, Failed or TimedOut;
   the three outcomes are terminal (the record of a unit with an outcome,
   its requests included, never changes again), and no unit is ever the
   subject of more than one POST /prompt. *)
C7_UnitStateMachine ==
    [][/\ Len(log') >= Len(log)
       /\ \A k \in 1..Len(log') : log'[k].posts <= 1
       /\ \A k \in Units :
             /\ (log[k].state \in Terminal => log'[k] = log[k])
             /\ (log'[k].state # log[k].state =>
                    <<log[k].state, log'[k].state>> \in
                       {<<"Pending", "Submitted">>, <<"Pending", "Failed">>,
                        <<"Submitted", "Completed">>, <<"Submitted", "Failed">>,
                        <<"Submitted", "TimedOut">>})
       /\ \A k \in (1..Len(log')) \ Units : log'[k].state \in {"Pending", "Failed"}
      ]_vars

\* a unit that timed out, followed by a unit that was submitted
C7_Witness ==
    \E k \in Units :
       /\ k < Len(log)
       /\ log[k].state = "TimedOut"
       /\ log[k + 1].state = "Submitted"

(* C8 as stated: when the prompt file does not exist, parse_prompt_file
   returns no sequence but fails, and the failure aborts the run. *)
C8_MissingFileIsHardFailure ==
    (pc # "parse" /\ ~fileExists) => (parseOutcome = "raised" /\ pc = "aborted")

(* C8 as amended: when the prompt file does not exist, parse_prompt_file
   returns the empty list and raises nothing, and process_prompts goes on as
   for a file without a valid line: it returns with no unit attempted and no
   tally reported. *)
C8_MissingFileReturnsEmpty ==
    (pc # "parse" /\ ~fileExists) =>
        /\ parseOutcome = "returned"
        /\ prompts = <<>>
        /\ pc \in {"check", "done"}
        /\ log = <<>>
        /\ remote = {}
        /\ completed = 0 /\ failed = 0
        /\ ~report.logged

\* process_prompts has returned and the prompt file did not exist
C8_Witness == pc = "done" /\ ~fileExists

(***************************************************************************)
(* The parser on its own: parse_prompt_file applied to files whose lines   *)
(* are put together from well-formed and malformed pieces.                 *)
(***************************************************************************)
WorkflowParts ==
    {Group(TypeA, <<"2">>),
     Group(TypeA, <<"1">>) \o Group(TypeB, <<"0">>),
     Group(TypeA, <<"1">>) \o <<SP>> \o Group(TypeM, <<"1", "0">>),
     Group(<<SP, "a", TAB>>, <<"0", "3">>),
     Group(<<SP>>, <<"1">>),
     <<"x">> \o Group(TypeA, <<"1">>) \o <<"x">>,
     <<DELTA, LBRACE, "a", RBRACE, BULLET, "1", DELTA,
               LBRACE, "b", RBRACE, BULLET, "2", DELTA>>,
     <<DELTA, LBRACE>> \o Group(TypeA, <<"1">>),
     <<DELTA, LBRACE, RBRACE, BULLET, "1", DELTA>>,
     <<DELTA, LBRACE, "a", RBRACE, BULLET, DELTA>>,
     <<DELTA, LBRACE, "a", RBRACE, BULLET, "1">>,
     <<"a">>,
     <<>>}

Separators == {<<SP, YEN>>, <<YEN>>, <<TAB, YEN>>}

\* what follows the separator, up to the closing bracket
Segments ==
    {<<"c", YEN>>,
     <<"c">>,
     <<"c", YEN, YEN>>,
     <<"c", YEN, SP>>,
     <<SP, "c", SP, "d", YEN>>,
     <<"c", SP, YEN, "d", YEN>>,
     <<YEN>>,
     <<TAB, YEN>>,
     <<>>}

\* the text before the line's content and after it
Wrappers ==
    {<<<<LB>>, <<RB>>>>,
     <<<<SP, LB>>, <<RB, TAB, SP>>>>,
     <<<<>>, <<RB>>>>,
     <<<<LB>>, <<>>>>}

ParseLines ==
    {w[1] \o wp \o sep \o seg \o w[2] :
        w \in Wrappers, wp \in WorkflowParts, sep \in Separators, seg \in Segments}
    \cup {<<>>, <<LB, RB>>, <<LB>>, Junk}

\* the lines around the line under test
ContextLines ==
    {Line(Group(TypeB, <<"1">>), <<"k">>),
     <<LB>> \o Group(TypeA, <<"1">>) \o <<RB>>,
     Junk}

\* the most lines before the line under test
MaxContext == 1

ParseFiles ==
    {h \o <<l>> \o t :
        h \in UNION {[1..n -> ContextLines] : n \in 0..MaxContext},
        l \in ParseLines,
        t \in {<<>>, <<Line(Group(TypeA, <<"1">>) \o Group(TypeM, <<"2">>), <<"z">>)>>}}

InitParse ==
    /\ fileExists \in BOOLEAN
    /\ file \in ParseFiles \cup {<<>>}
    /\ (~fileExists => file = <<>>)
    /\ disk = WorkflowFiles
    /\ InitRun

NextParse == ParsePromptFile

SpecParse == InitParse /\ [][NextParse]_vars

(***************************************************************************)
(* The prompt format, as the claims state it                               *)
(***************************************************************************)
Least(S) == CHOOSE x \in S : \A y \in S : x <= y

Greatest(S) == CHOOSE x \in S : \A y \in S : x >= y

\* s without its leading and trailing whitespace
Trim(s) ==
    LET solid == {i \in 1..Len(s) : s[i] \notin Whitespace}
    IN IF solid = {} THEN <<>> ELSE SubSeq(s, Least(solid), Greatest(solid))

\* s without its trailing yen signs
WithoutTrailingYen(s) ==
    LET other == {i \in 1..Len(s) : s[i] # YEN}
    IN IF other = {} THEN <<>> ELSE SubSeq(s, 1, Greatest(other))

Bracketed(raw) ==
    LET t == Trim(raw) IN Len(t) > 0 /\ t[1] = LB /\ t[Len(t)] = RB

Content(raw) == LET t == Trim(raw) IN SubSeq(t, 2, Len(t) - 1)

\* where the delimiter " Y" stands in c
DelimitersIn(c) == {i \in 1..(Len(c) - 1) : c[i] = SP /\ c[i + 1] = YEN}

FirstPart(raw) ==
    LET c == Content(raw) IN SubSeq(c, 1, Least(DelimitersIn(c)) - 1)

SecondPart(raw) ==
    LET c == Content(raw) IN SubSeq(c, Least(DelimitersIn(c)) + 2, Len(c))

\* <<i, j, k>>: a group D{name}*countD from i to k whose name ends before j
GroupSpans(s) ==
    LET at(c) == {i \in 1..Len(s) : s[i] = c}
    IN {g \in at(DELTA) \X at(RBRACE) \X at(DELTA) :
          /\ g[1] + 2 < g[2] /\ g[2] + 2 < g[3]
          /\ s[g[1] + 1] = LBRACE
          /\ \A x \in (g[1] + 2)..(g[2] - 1) : s[x] # RBRACE
          /\ s[g[2] + 1] = BULLET
          /\ \A x \in (g[2] + 2)..(g[3] - 1) : s[x] \in Digits}

\* the groups a scan from the left finds: a group counts unless it begins
\* inside a group that counts
GroupsFound(s) ==
    CHOOSE C \in SUBSET GroupSpans(s) :
        \A g \in GroupSpans(s) :
            g \in C <=> \A h \in C : h[1] < g[1] => h[3] < g[1]

RECURSIVE Decimal(_, _)
Decimal(ds, acc) ==
    IF ds = <<>> THEN acc ELSE Decimal(Tail(ds), 10 * acc + DigitVal(Head(ds)))

\* one ratio per group found, in the order of the groups
RatiosOf(s) ==
    LET C == GroupsFound(s)
        nth(n) == CHOOSE g \in C : Cardinality({h \in C : h[1] < g[1]}) = n - 1
    IN [n \in 1..Cardinality(C) |->
           [type |-> Trim(SubSeq(s, nth(n)[1] + 2, nth(n)[2] - 1)),
            count |-> Decimal(SubSeq(s, nth(n)[2] + 2, nth(n)[3] - 1), 0)]]

WellFormed(raw) ==
    /\ Bracketed(raw)
    /\ Cardinality(DelimitersIn(Content(raw))) = 1
    /\ GroupsFound(FirstPart(raw)) # {}

Parsed == pc # "parse" /\ parseOutcome = "returned" /\ fileExists

(* C9: parse_prompt_file returns one entry per well-formed line, in file
   order, with the line's 1-based number and one ratio per group, in match
   order, of the trimmed name and the value of the count; no other line
   yields an entry or changes the entries of the lines after it. *)
C9_OneEntryPerWellFormedLine ==
    Parsed =>
        LET good == {n \in 1..Len(file) : WellFormed(file[n])}
            nth(k) == CHOOSE n \in good : Cardinality({m \in good : m < n}) = k - 1
        IN /\ Len(prompts) = Cardinality(good)
           /\ \A k \in 1..Len(prompts) :
                 /\ prompts[k].line_num = nth(k)
                 /\ prompts[k].ratios = RatiosOf(FirstPart(file[nth(k)]))

\* a parsed file of three lines: a bracketed line without the delimiter,
\* then a line of two groups, then another well-formed line
C9_Witness ==
    /\ Parsed
    /\ Len(file) = 3
    /\ Bracketed(file[1]) /\ ~WellFormed(file[1])
    /\ Len(prompts) = 2
    /\ prompts[1].line_num = 2 /\ Len(prompts[1].ratios) = 2
    /\ prompts[2].line_num = 3

(* C10: the text of an entry is the second segment of its line, trimmed and
   then stripped of its trailing yen signs, and so never ends with a yen
   sign. *)
C10_TextTrimmedThenStripped ==
    Parsed =>
        \A k \in 1..Len(prompts) :
            /\ prompts[k].text =
                  WithoutTrailingYen(Trim(SecondPart(file[prompts[k].line_num])))
            /\ ~endswith(prompts[k].text, YEN)


(***************************************************************************)
(* Batch runs over workflow documents of every shape                       *)
(***************************************************************************)
\* a node of class c whose inputs are ins
Node(c, ins) == [is_dict |-> TRUE, class_type |-> c, has_inputs |-> TRUE, inputs |-> ins]

\* a node of class c without an inputs key
BareNode(c) == [is_dict |-> TRUE, class_type |-> c, has_inputs |-> FALSE, inputs |-> <<>>]

\* a value of the document that is not an object
Scalar == [is_dict |-> FALSE, class_type |-> "", has_inputs |-> FALSE, inputs |-> <<>>]

\* a node of another class that happens to have a text and a seed input
Lookalike == Node("Note", [text |-> <<"t">>, seed |-> <<0, 7>>])

Doc(n6, n3, n9) ==
    [n \in {"6", "3", "9"} |-> CASE n = "6" -> n6 [] n = "3" -> n3 [] n = "9" -> n9]

\* the documents a.json is tried with
Templates ==
    {Doc(TextNode(<<"t">>), SamplerNode(<<0, 0>>), Lookalike),
     Doc(TextNode(<<"c">>), SamplerNode(<<10000000, 1>>), SamplerNode(<<0, 1>>)),
     Doc(Node("CLIPTextEncode", [clip |-> 4]), Node("KSampler", [steps |-> 20]), Scalar),
     Doc(BareNode("CLIPTextEncode"), BareNode("KSampler"), TextNode(<<"t">>))}

TemplateFile == <<Line(Group(TypeA, <<"2">>), <<"c">>)>>

InitTemplates ==
    /\ fileExists = TRUE
    /\ file = TemplateFile
    /\ disk \in {[WorkflowFiles EXCEPT !["workflows/a.json"].doc = t] : t \in Templates}
    /\ InitRun

SpecTemplates == InitTemplates /\ [][Next]_vars

(***************************************************************************)
(* The materializer, as the claims state it                                 *)
(***************************************************************************)
\* a text-input node: its class marks it as one and it has the text field
IsTextInput(node) ==
    /\ node.is_dict /\ node.class_type = "CLIPTextEncode"
    /\ node.has_inputs /\ "text" \in DOMAIN node.inputs

\* a seed-bearing node: its class marks it as one and it has input fields
IsSeedBearing(node) ==
    node.is_dict /\ node.class_type = "KSampler" /\ node.has_inputs

\* node b is node a but for the input field f, which b has
SameBut(a, b, f) ==
    /\ b.is_dict = a.is_dict /\ b.class_type = a.class_type
    /\ b.has_inputs = a.has_inputs
    /\ DOMAIN b.inputs = DOMAIN a.inputs \cup {f}
    /\ \A g \in DOMAIN a.inputs \ {f} : b.inputs[g] = a.inputs[g]

\* the unit in progress has its job document, materialized from a.json
Materialized == pc \in {"queue", "wait"}

TemplateOfJob == disk["workflows/a.json"].doc

TextOfJob == prompts[Last(log).pos[1]].text

\* C11: the job document materialized for a unit has the node identifiers of
\* its template; a node that is neither a text-input node nor a seed-bearing
\* node is the template's node; a text-input node differs from the template's
\* in its text field only and a seed-bearing node in its seed field only; and
\* the text field of every text-input node is the entry's text.
C11_MaterializeFrame ==
    Materialized =>
        /\ DOMAIN workflow = DOMAIN TemplateOfJob
        /\ \A n \in DOMAIN TemplateOfJob :
              LET t == TemplateOfJob[n]
                  j == workflow[n]
              IN /\ (~IsTextInput(t) /\ ~IsSeedBearing(t)) => j = t
                 /\ IsTextInput(t) => SameBut(t, j, "text") /\ j.inputs.text = TextOfJob
                 /\ IsSeedBearing(t) => SameBut(t, j, "seed")

C11_Witness ==
    /\ Materialized
    /\ \E n, m \in DOMAIN TemplateOfJob :
          /\ IsTextInput(TemplateOfJob[n])
          /\ TemplateOfJob[n].inputs.text # TextOfJob
          /\ workflow[n].inputs.text = TextOfJob
          /\ ~IsTextInput(TemplateOfJob[m]) /\ ~IsSeedBearing(TemplateOfJob[m])
          /\ TemplateOfJob[m].has_inputs
          /\ "text" \in DOMAIN TemplateOfJob[m].inputs
          /\ workflow[m] = TemplateOfJob[m]


(***************************************************************************)
(* The units of a batch, counted                                           *)
(***************************************************************************)
\* f[1] + ... + f[n]
RECURSIVE SumTo(_, _)
SumTo(f, n) == IF n = 0 THEN 0 ELSE f[n] + SumTo(f, n - 1)

\* the sum over all entries and all their ratios of count
TotalUnits(ps) ==
    SumTo([p \in 1..Len(ps) |->
              SumTo([r \in 1..Len(ps[p].ratios) |-> ps[p].ratios[r].count],
                    Len(ps[p].ratios))],
          Len(ps))

\* the count of the ratio the unit at position at belongs to
TypeCount(at) == prompts[at[1]].ratios[at[2]].count

\* the units attempted for ratio r of entry p
AttemptedFor(p, r) == {k \in Units : log[k].pos[1] = p /\ log[k].pos[2] = r}

\* C12: the total the run computes is the sum over all parsed entries and all
\* their ratios of count; when the run has ended, the number of units
\* attempted is that total and every ratio was attempted count times, so a
\* ratio with count 0 has no unit (nothing loaded, nothing posted) and counts
\* as no failure; a batch whose ratios all have count 0 ends with its report,
\* with no unit attempted.
C12_UnitsAreSumOfCounts ==
    /\ (pc \in {"unit", "queue", "wait", "report"} \/ (pc = "done" /\ prompts # <<>>)) =>
          /\ total_generations = TotalUnits(prompts)
          /\ Len(log) <= total_generations
          /\ \A k \in Units : log[k].pos[3] <= TypeCount(log[k].pos)
    /\ (pc = "done" /\ prompts # <<>>) =>
          /\ Len(log) = TotalUnits(prompts)
          /\ \A p \in 1..Len(prompts) : \A r \in 1..Len(prompts[p].ratios) :
                Cardinality(AttemptedFor(p, r)) = prompts[p].ratios[r].count
          /\ report.logged /\ report.total = TotalUnits(prompts)
          /\ failed = CountIn({"Failed", "TimedOut"})
          /\ TotalUnits(prompts) = 0 => (log = <<>> /\ remote = {} /\ failed = 0)

C12_Witness ==
    /\ pc = "done" /\ report.logged
    /\ prompts # <<>>
    /\ \A p \in 1..Len(prompts) : \A r \in 1..Len(prompts[p].ratios) :
          prompts[p].ratios[r].count = 0
    /\ report = [logged |-> TRUE, total |-> 0, completed |-> 0, failed |-> 0]


(***************************************************************************)
(* The batch run under a scheduler that keeps the one thread running: the  *)
(* clock advances and every HTTP request returns, so a step that can be    *)
(* taken is taken.                                                         *)
(***************************************************************************)
\* the steps of process_prompts after the parse
RunStep ==
    CheckPrompts \/ LoadWorkflow \/ QueuePrompt \/ PollHistory \/ WaitTimeout \/ Report

\* Weak fairness of every step.  For the parse step it is written out, with
\* pc = "parse" for ENABLED <<ParsePromptFile>>_vars: the step has no other
\* guard and always changes pc.
SpecFair ==
    /\ Init /\ [][Next]_vars
    /\ WF_vars(RunStep)
    /\ ([]<>(pc # "parse") \/ []<><<ParsePromptFile>>_vars)

\* a poll was started for the unit in progress
PollStarted == Len(log') = Len(log) /\ log # <<>> /\ Last(log').gets > Last(log).gets

\* C13: whatever the remote queue answers, the run ends, with its final
\* report when anything was parsed; every poll loop ends; a unit is Submitted
\* only while its poll loop runs and an accepted unit is Completed or TimedOut
\* once the loop has ended; and a poll is started only before timeout has
\* elapsed since the loop began.
C13_RunTerminates ==
    /\ <>(pc = "done")
    /\ [](pc = "done" /\ prompts # <<>> => report.logged)
    /\ (pc = "wait") ~> (pc # "wait")
    /\ [](\A k \in Units :
            /\ log[k].state = "Submitted" => (pc = "wait" /\ k = Len(log))
            /\ (log[k].post_reply = "ok" /\ log[k].state # "Submitted")
                  => log[k].state \in {"Completed", "TimedOut"})
    /\ [][PollStarted => elapsed < timeout]_vars

C13_Witness ==
    /\ pc = "done" /\ report.logged
    /\ \E k \in Units :
          /\ log[k].state = "TimedOut"
          /\ log[k].gets > 0 /\ log[k].failed_polls = log[k].gets
    /\ \E k \in Units :
          /\ log[k].state = "TimedOut"
          /\ log[k].gets > 0 /\ log[k].failed_polls = 0


(***************************************************************************)
(* The order of the units                                                  *)
(***************************************************************************)
\* the step issues the POST /prompt of the unit in progress
PostIssued == Len(log') = Len(log) /\ log # <<>> /\ Last(log').posts > Last(log).posts

\* C14: at any time at most one unit is Submitted, and when the POST /prompt
\* of a unit is issued every unit begun before it has a terminal outcome and
\* is counted in completed or failed.
C14_OneUnitAtATime ==
    /\ [](Cardinality({k \in Units : log[k].state = "Submitted"}) <= 1)
    /\ [][PostIssued =>
            /\ \A j \in 1..(Len(log) - 1) : log[j].state \in Terminal
            /\ completed = Cardinality({j \in 1..(Len(log) - 1) : log[j].state = "Completed"})
            /\ failed = Cardinality({j \in 1..(Len(log) - 1) :
                                        log[j].state \in {"Failed", "TimedOut"}})
            /\ Last(log).state = "Pending"]_vars

C14_Witness ==
    /\ Len(log) = 4
    /\ log[1].state = "Completed" /\ log[2].state = "TimedOut"
    /\ log[3].state = "Failed"
    /\ log[4].state = "Submitted" /\ log[4].posts = 1
    /\ completed = 1 /\ failed = 2


(***************************************************************************)
(* The entries parse returns                                                *)
(***************************************************************************)
\* the prompt segment of the line of entry k
SegmentOf(k) == SecondPart(file[prompts[k].line_num])

\* C15, as stated: every entry has at least one ratio and a text that is not
\* empty.
C15_TextNeverEmpty ==
    Parsed =>
        \A k \in 1..Len(prompts) :
            Len(prompts[k].ratios) > 0 /\ Len(prompts[k].text) > 0

\* C15, amended: every entry has at least one ratio; its text is empty exactly
\* when the prompt segment of its line, without its trailing yen signs, is
\* empty or whitespace; and a well-formed line with such a segment yields an
\* entry all the same.
C15_RatiosNeverEmpty ==
    Parsed =>
        /\ \A k \in 1..Len(prompts) :
              /\ Len(prompts[k].ratios) > 0
              /\ prompts[k].text = <<>> <=> Trim(WithoutTrailingYen(SegmentOf(k))) = <<>>
        /\ \A n \in 1..Len(file) :
              (WellFormed(file[n]) /\ Trim(WithoutTrailingYen(SecondPart(file[n]))) = <<>>)
                 => \E k \in 1..Len(prompts) :
                       prompts[k].line_num = n /\ prompts[k].text = <<>>

\* an entry with an empty text from a segment of whitespace and a yen sign
C15_Witness ==
    /\ Parsed
    /\ \E k \in 1..Len(prompts) :
          /\ prompts[k].text = <<>>
          /\ SegmentOf(k) = <<TAB, YEN>>
          /\ Len(prompts[k].ratios) > 0


(***************************************************************************)
(* Templates and the units that use them                                   *)
(***************************************************************************)
\* the text of the entry unit k belongs to
TextOfUnit(k) == prompts[log[k].pos[1]].text

\* C16: what a load of a job type reads is what it read before any unit was
\* materialized; the document posted for a unit has the text of the unit's
\* own entry in every text-input node; and the job document of the unit in
\* progress is the file's document but for the text and seed fields written
\* for this unit.
C16_TemplatesNotShared ==
    /\ disk = WorkflowFiles
    /\ \A k \in Units : log[k].posts > 0 => log[k].posted_texts = {TextOfUnit(k)}
    /\ Materialized =>
          LET template == WorkflowFiles[workflows[TypeAt(pos)]].doc
          IN /\ DOMAIN workflow = DOMAIN template
             /\ \A n \in DOMAIN template :
                   /\ IsTextInput(template[n]) =>
                         /\ SameBut(template[n], workflow[n], "text")
                         /\ workflow[n].inputs.text = TextOfUnit(Len(log))
                   /\ IsSeedBearing(template[n]) => SameBut(template[n], workflow[n], "seed")
                   /\ (~IsTextInput(template[n]) /\ ~IsSeedBearing(template[n]))
                         => workflow[n] = template[n]

\* a unit of the second entry is posted with its own text after units of the
\* first entry were posted with theirs, all from the same file
C16_Witness ==
    /\ Len(log) = 4
    /\ TypeAt(log[1].pos) = TypeAt(log[4].pos)
    /\ log[1].posts = 1 /\ log[2].posts = 1 /\ log[4].posts = 1
    /\ TextOfUnit(1) # TextOfUnit(4)
    /\ log[1].posted_texts = {TextOfUnit(1)}
    /\ log[4].posted_texts = {TextOfUnit(4)}


(***************************************************************************)
(* The tally during the run                                                *)
(***************************************************************************)
\* the units that reach a terminal outcome in the step
NewlyTerminal ==
    {k \in 1..Len(log') :
        log'[k].state \in Terminal /\ (k > Len(log) \/ log[k].state \notin Terminal)}

\* C17: at every point of a run completed + failed is the number of units
\* with a terminal outcome and at most the total; no step decreases a
\* counter; and a unit that reaches a terminal outcome adds exactly 1 to
\* exactly one counter, completed for Completed and failed otherwise, in that
\* step and in no other.
C17_TallyAtEveryPoint ==
    /\ [](/\ completed + failed = CountIn(Terminal)
          /\ completed = CountIn({"Completed"})
          /\ completed + failed <= total_generations)
    /\ [][/\ completed' >= completed /\ failed' >= failed
          /\ Cardinality(NewlyTerminal) <= 1
          /\ completed' - completed =
                Cardinality({k \in NewlyTerminal : log'[k].state = "Completed"})
          /\ failed' - failed =
                Cardinality({k \in NewlyTerminal : log'[k].state # "Completed"})
          /\ \A k \in Units : log[k].state \in Terminal => log'[k].state = log[k].state]_vars

\* in the middle of a batch of four units, one completed and one failed
C17_Witness ==
    /\ pc = "unit"
    /\ total_generations = 4
    /\ Len(log) = 2
    /\ completed = 1 /\ failed = 1


(***************************************************************************)
(* The seeds                                                               *)
(***************************************************************************)
\* the closed range the seeds are to be in: 1 and 10^15, as pairs <<h, l>>
SeedMin == <<0, 1>>

SeedMax == <<10000000, 0>>

InSeedRange(v) ==
    /\ v[1] >= 0 /\ v[2] >= 0
    /\ ~(v[1] = 0 /\ v[2] = 0)
    /\ v[1] < SeedMax[1] \/ (v[1] = SeedMax[1] /\ v[2] = 0)

\* the seed-bearing nodes of the document a.json holds
SeedBearingNodes == {n \in DOMAIN TemplateOfJob : IsSeedBearing(TemplateOfJob[n])}

\* the next step can materialize a job whose node n has seed v
CanDraw(n, v) == ENABLED (LoadWorkflow /\ workflow'[n].inputs.seed = v)

\* C18: in a materialized job the seed field of every seed-bearing node is an
\* integer from 1 to 10^15; a node that is not seed-bearing has the input
\* fields of the template's node and, if it has a seed field, the template's
\* value in it; and each materialize call draws anew: whatever the template
\* and the job before hold, the call can give a seed-bearing node the least
\* and the greatest seed of the range.
C18_SeedInRange ==
    /\ Materialized =>
          \A n \in DOMAIN TemplateOfJob :
              LET t == TemplateOfJob[n]
                  j == workflow[n]
              IN IF IsSeedBearing(t)
                 THEN "seed" \in DOMAIN j.inputs /\ InSeedRange(j.inputs.seed)
                 ELSE /\ DOMAIN j.inputs = DOMAIN t.inputs
                      /\ "seed" \in DOMAIN t.inputs => j.inputs.seed = t.inputs.seed
    /\ pc = "unit" =>
          \A n \in SeedBearingNodes : CanDraw(n, SeedMin) /\ CanDraw(n, SeedMax)

\* after a job whose seed is 1 was made from a template whose seed is out of
\* range, the next call can draw 10^15 for the same node
C18_Witness ==
    /\ pc = "unit" /\ Len(log) = 1
    /\ \E n \in SeedBearingNodes :
          /\ "seed" \in DOMAIN TemplateOfJob[n].inputs
          /\ ~InSeedRange(TemplateOfJob[n].inputs.seed)
          /\ workflow[n].inputs.seed = SeedMin
          /\ CanDraw(n, SeedMax)
    /\ \E m \in DOMAIN TemplateOfJob \ SeedBearingNodes :
          /\ TemplateOfJob[m].has_inputs
          /\ "seed" \in DOMAIN TemplateOfJob[m].inputs
          /\ workflow[m] = TemplateOfJob[m]

====
